---- MODULE Spec2Model ----
(***************************************************************************)
(* Model of mazegen/generator.py: the grid model (Cell, Maze), the maze    *)
(* generator (pattern stamping, recursive backtracker, loop injection,     *)
(* border enforcement) and the hexadecimal serializer.                     *)
(*                                                                         *)
(* A run: the caller builds MazeGenerator(width, height, perfect,          *)
(* loop_factor, seed), calls generate(entry, exit) and save_to_file.  The  *)
(* caller then repeats the same run with a fresh generator, so that two    *)
(* runs with the same seed and parameters can be compared.                 *)
(*                                                                         *)
(* loop_factor is a float in the code; here it is a number of quarters     *)
(* (One = 1.0), values for which the float product of line 206 is exact.   *)
(* random.Random is modelled as a linear congruential generator: choice    *)
(* and sample are functions of the generator state, as in the library.     *)
(***************************************************************************)
EXTENDS Integers, Sequences, FiniteSets

VARIABLES
    args,             \* the caller's arguments (fixed during a behaviour)
    width, height,    \* MazeGenerator fields
    perfect,
    loop_factor,      \* in quarters, clamped to 0..One
    ran,              \* state of self.ran
    pc,               \* position of the run
    maze,             \* the Maze under construction, NoMaze before Maze()
    stack,            \* the stack of recursive_backtracker
    iters,            \* iterations of the while loop of recursive_backtracker
    marked,           \* cells on which close_cell was called
    walls_to_remove,  \* the sample drawn by add_loops (also printed)
    file,             \* lines written by save_to_file
    prev,             \* results of the earlier runs of the same call
    config,           \* the dict given to validate_and_convert, <<>> if none
    validated         \* the dict validate_and_convert returned, <<>> if none

vars == <<args, width, height, perfect, loop_factor, ran, pc, maze, stack,
          iters, marked, walls_to_remove, file, prev, config, validated>>

----------------------------------------------------------------------------
(* Bounds of the model *)

\* every grid of at most MaxSmall x MaxSmall cells is generated, with every
\* entry and exit of the grid and four outside it
MaxSmall == 2
\* seeds 0..MaxSeed
MaxSeed == 2
\* the serializer is applied to every wall matrix of a row or a column of
\* at most MaxSer cells
MaxSer == 2

\* the stamper is applied to every grid of 7..7+MaxMargin by 5..5+MaxMargin
\* cells (the bitmap with a margin of 0..MaxMargin)
MaxMargin == 4

\* 1.0 in quarters
One == 4

----------------------------------------------------------------------------
(* Grid model: Cell and Maze *)

\* the key order of Cell.walls and of Maze.get_neighbors.directions
Dirs == <<"N", "E", "S", "W">>

DirSet == {Dirs[i] : i \in 1..Len(Dirs)}

\* Cell.__init__: four walls, not visited
Cell == [walls |-> [d \in DirSet |-> TRUE], visited |-> FALSE]

has_wall(cell, d) == cell.walls[d]

remove_wall(cell, d) == [cell EXCEPT !.walls[d] = FALSE]

\* add_wall clearing the flag, as remove_wall does
add_wall_cleared(cell, d) == [cell EXCEPT !.walls[d] = FALSE]

add_wall(cell, d) == [cell EXCEPT !.walls[d] = TRUE]

Coords(w, h) == (0..(w - 1)) \X (0..(h - 1))

\* Maze.__init__
Maze(w, h, entry, exit) ==
    [width |-> w, height |-> h, entry |-> entry, exit |-> exit,
     cells |-> [c \in Coords(w, h) |-> Cell], solution |-> <<>>]

\* no Maze object exists
NoMaze ==
    [width |-> 0, height |-> 0, entry |-> <<0, 0>>, exit |-> <<0, 0>>,
     cells |-> [c \in {} |-> Cell], solution |-> <<>>]

\* the bounds test of Maze.get_cell and Maze.get_neighbors
InGrid(w, h, x, y) == (0 <= x /\ x < w) /\ (0 <= y /\ y < h)

\* Maze.get_cell returns a Cell exactly when HasCell holds (None otherwise)
HasCell(m, x, y) == InGrid(m.width, m.height, x, y)

get_cell(m, x, y) == m.cells[<<x, y>>]

DIRECTION_OFFSETS(d) ==
    CASE d = "N" -> <<0, -1>>
      [] d = "E" -> <<1, 0>>
      [] d = "S" -> <<0, 1>>
      [] d = "W" -> <<-1, 0>>

OPPOSITE(d) ==
    CASE d = "N" -> "S"
      [] d = "S" -> "N"
      [] d = "E" -> "W"
      [] d = "W" -> "E"

\* the four neighbours with the coordinates wrapped around the grid in place
\* of the bounds test
get_neighbors_wrapped(m, x, y) ==
    [i \in 1..Len(Dirs) |->
        <<(x + DIRECTION_OFFSETS(Dirs[i])[1]) % m.width,
          (y + DIRECTION_OFFSETS(Dirs[i])[2]) % m.height, Dirs[i]>>]

\* Maze.get_neighbors: the in-bounds neighbours <<nx, ny, dir>> in the order
\* N, E, S, W
get_neighbors(m, x, y) ==
    LET all == [i \in 1..Len(Dirs) |->
                  <<x + DIRECTION_OFFSETS(Dirs[i])[1],
                    y + DIRECTION_OFFSETS(Dirs[i])[2], Dirs[i]>>]
        inside(n) == InGrid(m.width, m.height, n[1], n[2])
    IN  SelectSeq(all, inside)

----------------------------------------------------------------------------
(* The random source: random.Random(seed), choice, sample *)

RanNext(r) == (r * 25173 + 13849) % 65536

\* a generator that is not seeded: it goes on from the state the random
\* source was left in
NewRandomShared(seed) == ran

\* random.Random(seed)
NewRandom(seed) == RanNext(seed % 65536)

\* Random._randbelow(n) on generator state r
RandBelow(r, n) == (r \div 256) % n

\* Random.choice(seq): seq[_randbelow(len(seq))]
Choice(r, seq) == seq[RandBelow(r, Len(seq)) + 1]

\* Random.sample(population, k): k draws from a shrinking pool; the drawn
\* slot is refilled with the last element of the pool.
\* Result: [res |-> the sample, ran |-> the generator state afterwards]
RECURSIVE SampleFrom(_, _, _, _)
SampleFrom(r, pool, k, res) ==
    IF k = 0 THEN [res |-> res, ran |-> r]
    ELSE LET n == Len(pool)
             j == RandBelow(r, n) + 1
             rest == [i \in 1..(n - 1) |-> IF i = j THEN pool[n] ELSE pool[i]]
         IN  SampleFrom(RanNext(r), rest, k - 1, Append(res, pool[j]))

Sample(r, population, k) == SampleFrom(r, population, k, <<>>)

----------------------------------------------------------------------------
(* MazeGenerator *)

Min(a, b) == IF a < b THEN a ELSE b

Max(a, b) == IF a < b THEN b ELSE a

\* the clamp without its lower end: min(1.0, loop_factor)
ClampAbove(lf) == Min(One, lf)

\* max(0.0, min(1.0, loop_factor))
Clamp(lf) == Max(0, Min(One, lf))

\* the three tests of generate that raise ValueError
EntryOutOfBounds(w, h, entry) == ~InGrid(w, h, entry[1], entry[2])

ExitOutOfBounds(w, h, exit) == ~InGrid(w, h, exit[1], exit[2])

\* generate without the test of line 123
RejectedBoundsOnly(w, h, entry, exit) ==
    \/ ~InGrid(w, h, entry[1], entry[2])
    \/ ~InGrid(w, h, exit[1], exit[2])

Rejected(w, h, entry, exit) ==
    \/ EntryOutOfBounds(w, h, entry)
    \/ ExitOutOfBounds(w, h, exit)
    \/ entry = exit

\* the bitmap of add_42_pattern, rows top to bottom
pattern ==
    << <<1, 0, 1, 0, 1, 1, 1>>,
       <<1, 0, 1, 0, 0, 0, 1>>,
       <<1, 1, 1, 0, 1, 1, 1>>,
       <<0, 0, 1, 0, 1, 0, 0>>,
       <<0, 0, 1, 0, 1, 1, 1>> >>

pattern_w == Len(pattern[1])

pattern_h == Len(pattern)

\* close_cell leaving the visited flag as it is
close_cell_unmarked(cells, c) == cells

\* close_cell: marks the cell visited; its walls are left as they are
close_cell(cells, c) == [cells EXCEPT ![c].visited = TRUE]

\* add_42_pattern without the two tests of lines 247-250
PatternTargetsAll(w, h, entry, exit) ==
    IF w < pattern_w + 2 \/ h < pattern_h + 2 THEN {}
    ELSE {<<(w - pattern_w) \div 2 + q[1], (h - pattern_h) \div 2 + q[2]>> :
             q \in {q \in (0..(pattern_w - 1)) \X (0..(pattern_h - 1)) :
                       pattern[q[2] + 1][q[1] + 1] = 1}}

\* line 234 without the margin of 2
PatternTargetsNoMargin(w, h, entry, exit) ==
    IF w < pattern_w \/ h < pattern_h THEN {}
    ELSE {<<(w - pattern_w) \div 2 + q[1], (h - pattern_h) \div 2 + q[2]>> :
             q \in {q \in (0..(pattern_w - 1)) \X (0..(pattern_h - 1)) :
                       pattern[q[2] + 1][q[1] + 1] = 1}}
         \ {entry, exit}

\* the cells add_42_pattern passes to close_cell
PatternTargets(w, h, entry, exit) ==
    IF w < pattern_w + 2 \/ h < pattern_h + 2 THEN {}
    ELSE LET offset_x == (w - pattern_w) \div 2
             offset_y == (h - pattern_h) \div 2
             ones == {q \in (0..(pattern_w - 1)) \X (0..(pattern_h - 1)) :
                         pattern[q[2] + 1][q[1] + 1] = 1}
         IN  {<<offset_x + q[1], offset_y + q[2]>> : q \in ones} \ {entry, exit}

\* close_cell applied to every cell of a set (the order does not matter:
\* each call sets one visited flag)
CloseAll(m, targets) ==
    [c \in DOMAIN m.cells |->
        IF c \in targets THEN close_cell(m.cells, c)[c] ELSE m.cells[c]]

\* the filter of lines 157-160 left out
AllNeighbors(m, x, y) == get_neighbors(m, x, y)

\* the unvisited neighbours of the stack top, in get_neighbors order
UnvisitedNeighbors(m, x, y) ==
    LET unvisited(n) == ~get_cell(m, n[1], n[2]).visited
    IN  SelectSeq(get_neighbors(m, x, y), unvisited)

\* line 168 with dir in place of opposite[dir]
CarveSameSide(cells, x, y, nx, ny, dir) ==
    [cells EXCEPT ![<<x, y>>] = remove_wall(@, dir),
                  ![<<nx, ny>>] = [remove_wall(@, dir) EXCEPT !.visited = TRUE]]

\* lines 166-169 without line 167: the neighbour is not set visited
CarveNoVisit(cells, x, y, nx, ny, dir) ==
    [cells EXCEPT ![<<x, y>>] = remove_wall(@, dir),
                  ![<<nx, ny>>] = remove_wall(@, OPPOSITE(dir))]

\* lines 166-169: both sides of the wall removed, the neighbour visited
Carve(cells, x, y, nx, ny, dir) ==
    [cells EXCEPT ![<<x, y>>] = remove_wall(@, dir),
                  ![<<nx, ny>>] = [remove_wall(@, OPPOSITE(dir))
                                      EXCEPT !.visited = TRUE]]

\* stack.pop(0): the bottom of the stack is taken
PopBottom(s) == SubSeq(s, 2, Len(s))

\* stack.pop()
Pop(s) == SubSeq(s, 1, Len(s) - 1)

\* lines 183-189 without the test of the walls
pattern_walls_visited(m) == {c \in DOMAIN m.cells : m.cells[c].visited}

\* add_loops, lines 183-189: visited cells that still have their four walls
pattern_walls(m) ==
    {c \in DOMAIN m.cells :
        /\ m.cells[c].visited
        /\ \A i \in 1..Len(Dirs) : has_wall(m.cells[c], Dirs[i])}

\* lines 197-204 without the has_wall tests
CellWallsAny(m, pw, x, y) ==
    LET east == IF /\ x + 1 < m.width
                   /\ <<x, y>> \notin pw /\ <<x + 1, y>> \notin pw
                THEN << <<x, y, "E">> >> ELSE <<>>
        south == IF /\ y + 1 < m.height
                    /\ <<x, y>> \notin pw /\ <<x, y + 1>> \notin pw
                 THEN << <<x, y, "S">> >> ELSE <<>>
    IN  east \o south

\* add_loops, lines 197-204: the candidate walls of one cell, E before S
CellWalls(m, pw, x, y) ==
    LET cell == get_cell(m, x, y)
        east == IF /\ x + 1 < m.width /\ has_wall(cell, "E")
                   /\ <<x, y>> \notin pw /\ <<x + 1, y>> \notin pw
                THEN << <<x, y, "E">> >> ELSE <<>>
        south == IF /\ y + 1 < m.height /\ has_wall(cell, "S")
                    /\ <<x, y>> \notin pw /\ <<x, y + 1>> \notin pw
                 THEN << <<x, y, "S">> >> ELSE <<>>
    IN  east \o south

\* add_loops, lines 190-204: the scan, rows outside and columns inside;
\* i counts the cells scanned so far
RECURSIVE ScanWalls(_, _, _)
ScanWalls(m, pw, i) ==
    IF i >= m.width * m.height THEN <<>>
    ELSE CellWalls(m, pw, i % m.width, i \div m.width) \o ScanWalls(m, pw, i + 1)

internal_walls(m) == ScanWalls(m, pattern_walls(m), 0)

\* the product rounded up
NumToRemoveCeil(n, lf) == (n * lf + One - 1) \div One

\* int(len(internal_walls) * self.loop_factor)
NumToRemove(n, lf) == (n * lf) \div One

\* lines 211-217 without line 217: the neighbour keeps its side of the wall
RECURSIVE RemoveWallsOneSide(_, _, _)
RemoveWallsOneSide(m, list, i) ==
    IF i > Len(list) THEN m.cells
    ELSE LET x == list[i][1]
             y == list[i][2]
             direction == list[i][3]
             nx == x + DIRECTION_OFFSETS(direction)[1]
             ny == y + DIRECTION_OFFSETS(direction)[2]
             after ==
                 IF HasCell(m, x, y) /\ HasCell(m, nx, ny)
                 THEN [m.cells EXCEPT ![<<x, y>>] = remove_wall(@, direction)]
                 ELSE m.cells
         IN  RemoveWallsOneSide([m EXCEPT !.cells = after], list, i + 1)

\* add_loops, lines 211-217: the walls of the list removed on both sides
RECURSIVE RemoveWalls(_, _, _)
RemoveWalls(m, list, i) ==
    IF i > Len(list) THEN m.cells
    ELSE LET x == list[i][1]
             y == list[i][2]
             direction == list[i][3]
             nx == x + DIRECTION_OFFSETS(direction)[1]
             ny == y + DIRECTION_OFFSETS(direction)[2]
             after ==
                 IF HasCell(m, x, y) /\ HasCell(m, nx, ny)
                 THEN [m.cells EXCEPT
                          ![<<x, y>>] = remove_wall(@, direction),
                          ![<<nx, ny>>] = remove_wall(@, OPPOSITE(direction))]
                 ELSE m.cells
         IN  RemoveWalls([m EXCEPT !.cells = after], list, i + 1)

\* add_border_walls: the four outer edges get their walls
BorderWalls(m) ==
    [c \in DOMAIN m.cells |->
        LET n == IF c[2] = 0 THEN add_wall(m.cells[c], "N") ELSE m.cells[c]
            s == IF c[2] = m.height - 1 THEN add_wall(n, "S") ELSE n
            w == IF c[1] = 0 THEN add_wall(s, "W") ELSE s
        IN  IF c[1] = m.width - 1 THEN add_wall(w, "E") ELSE w]

----------------------------------------------------------------------------
(* Serializer *)

Bit(b) == IF b THEN 1 ELSE 0

\* the weights 8, 4, 2, 1 for N, E, S, W
CellValueWeights(cell) ==
    Bit(cell.walls["N"]) * 8 + Bit(cell.walls["E"]) * 4
        + Bit(cell.walls["S"]) * 2 + Bit(cell.walls["W"]) * 1

\* save_to_file, lines 301-306: the shifts are on distinct bits, so the
\* bitwise or is a sum
CellValue(cell) ==
    Bit(cell.walls["N"]) * 1 + Bit(cell.walls["E"]) * 2
        + Bit(cell.walls["S"]) * 4 + Bit(cell.walls["W"]) * 8

HexDigits ==
    <<"0", "1", "2", "3", "4", "5", "6", "7",
      "8", "9", "A", "B", "C", "D", "E", "F">>

\* f'{value:X}' for a value in 0..15
FormatX(value) == HexDigits[value + 1]

\* lines 310 and 311 in the other order: the exit is written first
FileLinesExitFirst(m) ==
    [y \in 1..m.height |->
        [x \in 1..m.width |-> FormatX(CellValue(get_cell(m, x - 1, y - 1)))]]
    \o << <<>>, m.exit, m.entry, m.solution >>

\* the lines save_to_file writes: a row of digits per grid row, a blank
\* line, the entry, the exit and the solution
FileLines(m) ==
    [y \in 1..m.height |->
        [x \in 1..m.width |-> FormatX(CellValue(get_cell(m, x - 1, y - 1)))]]
    \o << <<>>, m.entry, m.exit, m.solution >>

----------------------------------------------------------------------------
(* The caller's arguments *)

Seeds == 0..MaxSeed

\* loop_factor arguments, in quarters: -0.25, 0.0, 0.25, 0.5, 1.0, 1.25
LoopFactors == {-1, 0, 1, 2, One, One + 1}

\* <<perfect, loop_factor>>
Modes == {<<TRUE, 1>>, <<TRUE, One>>} \cup {<<FALSE, lf>> : lf \in LoopFactors}

\* a width or a height of 0 gives a grid without cells
SmallDims == (0..MaxSmall) \X (0..MaxSmall)

\* 9 x 7 is the smallest grid that takes the pattern
LargeDims == {<<3, 3>>, <<5, 5>>, <<9, 7>>}

Dimensions == SmallDims \cup LargeDims

\* a point outside the grid on each of its four sides
Outside(w, h) == {<<-1, 0>>, <<w, 0>>, <<0, -1>>, <<0, h>>}

\* <<entry, exit>> arguments tried on a w x h grid: on the small grids every
\* pair of points of the grid and of the four outside; on the others
\* corner to corner, and pairs with two adjacent points of row 1, which are
\* bitmap-1 positions on the 9 x 7 grid, and a pair with a point outside
EntryExit(w, h) ==
    IF <<w, h>> \in SmallDims
    THEN LET points == ((0..(w - 1)) \X (0..(h - 1))) \cup Outside(w, h)
         IN  points \X points
    ELSE LET first == <<0, 0>>
             last == <<w - 1, h - 1>>
             a == <<w \div 2 + 1, 1>>
             b == <<w \div 2 + 2, 1>>
         IN  {<<first, last>>, <<a, b>>, <<b, first>>, <<last, a>>,
              <<first, <<w, 0>> >>}

----------------------------------------------------------------------------
(* Operations *)

Init ==
    /\ \E d \in Dimensions, md \in Modes, sd \in Seeds :
         \E ee \in EntryExit(d[1], d[2]) :
            args = [width |-> d[1], height |-> d[2], perfect |-> md[1],
                    loop_factor |-> md[2], seed |-> sd,
                    entry |-> ee[1], exit |-> ee[2]]
    /\ width = 0 /\ height = 0 /\ perfect = TRUE /\ loop_factor = 0
    /\ ran = 0
    /\ pc = "new"
    /\ maze = NoMaze
    /\ stack = <<>>
    /\ iters = 0
    /\ marked = {}
    /\ walls_to_remove = <<>>
    /\ file = <<>>
    /\ prev = <<>>
    /\ config = <<>>
    /\ validated = <<>>

\* MazeGenerator.__init__
Construct ==
    /\ pc = "new"
    /\ width' = args.width
    /\ height' = args.height
    /\ perfect' = args.perfect
    /\ loop_factor' = Clamp(args.loop_factor)
    /\ ran' = NewRandom(args.seed)
    /\ pc' = "constructed"
    /\ UNCHANGED <<args, maze, stack, iters, marked, walls_to_remove, file, prev>>
    /\ UNCHANGED <<config, validated>>

\* generate, lines 114-124: one of the three ValueErrors is raised
GenerateRaise ==
    /\ pc = "constructed"
    /\ Rejected(width, height, args.entry, args.exit)
    /\ pc' = "raised"
    /\ UNCHANGED <<args, width, height, perfect, loop_factor, ran, maze, stack,
                   iters, marked, walls_to_remove, file, prev>>
    /\ UNCHANGED <<config, validated>>

\* generate, lines 114-125: the arguments pass and the Maze is built
GenerateMaze ==
    /\ pc = "constructed"
    /\ ~Rejected(width, height, args.entry, args.exit)
    /\ maze' = Maze(width, height, args.entry, args.exit)
    /\ pc' = "pattern"
    /\ UNCHANGED <<args, width, height, perfect, loop_factor, ran, stack, iters,
                   marked, walls_to_remove, file, prev>>
    /\ UNCHANGED <<config, validated>>

\* add_42_pattern
Add42Pattern ==
    /\ pc = "pattern"
    /\ LET targets == {c \in PatternTargets(width, height, maze.entry, maze.exit) :
                          HasCell(maze, c[1], c[2])}
       IN  /\ marked' = targets
           /\ maze' = [maze EXCEPT !.cells = CloseAll(maze, targets)]
    /\ pc' = "backtracker"
    /\ UNCHANGED <<args, width, height, perfect, loop_factor, ran, stack, iters,
                   walls_to_remove, file, prev>>
    /\ UNCHANGED <<config, validated>>

\* recursive_backtracker, lines 150-153
StartBacktracker ==
    /\ pc = "backtracker"
    /\ stack' = <<maze.entry>>
    /\ maze' = IF HasCell(maze, maze.entry[1], maze.entry[2])
               THEN [maze EXCEPT !.cells[maze.entry].visited = TRUE]
               ELSE maze
    /\ pc' = "carve"
    /\ UNCHANGED <<args, width, height, perfect, loop_factor, ran, iters, marked,
                   walls_to_remove, file, prev>>
    /\ UNCHANGED <<config, validated>>

\* one iteration of the while loop, lines 161-170
CarvePush ==
    /\ pc = "carve"
    /\ stack # <<>>
    /\ LET x == stack[Len(stack)][1]
           y == stack[Len(stack)][2]
           unvisited == UnvisitedNeighbors(maze, x, y)
       IN  /\ unvisited # <<>>
           /\ LET n == Choice(ran, unvisited)
              IN  /\ maze' = [maze EXCEPT
                                 !.cells = Carve(maze.cells, x, y, n[1], n[2], n[3])]
                  /\ stack' = Append(stack, <<n[1], n[2]>>)
    /\ ran' = RanNext(ran)
    /\ iters' = iters + 1
    /\ UNCHANGED <<args, width, height, perfect, loop_factor, pc, marked,
                   walls_to_remove, file, prev>>
    /\ UNCHANGED <<config, validated>>

\* one iteration of the while loop, lines 171-172
CarvePop ==
    /\ pc = "carve"
    /\ stack # <<>>
    /\ UnvisitedNeighbors(maze, stack[Len(stack)][1], stack[Len(stack)][2]) = <<>>
    /\ stack' = Pop(stack)
    /\ iters' = iters + 1
    /\ UNCHANGED <<args, width, height, perfect, loop_factor, ran, pc, maze,
                   marked, walls_to_remove, file, prev>>
    /\ UNCHANGED <<config, validated>>

\* line 128 without the not
RunsLoopsInverted(p) == p

\* generate, line 128
RunsLoops(p) == ~p

\* the while loop ends; generate goes on to add_loops or add_border_walls
FinishBacktracker ==
    /\ pc = "carve"
    /\ stack = <<>>
    /\ pc' = IF RunsLoops(perfect) THEN "loops" ELSE "border"
    /\ UNCHANGED <<args, width, height, perfect, loop_factor, ran, maze, stack,
                   iters, marked, walls_to_remove, file, prev>>
    /\ UNCHANGED <<config, validated>>

\* add_loops
AddLoops ==
    /\ pc = "loops"
    /\ LET candidates == internal_walls(maze)
           num_to_remove == NumToRemove(Len(candidates), loop_factor)
           drawn == Sample(ran, candidates, Min(num_to_remove, Len(candidates)))
       IN  /\ walls_to_remove' = drawn.res
           /\ ran' = drawn.ran
           /\ maze' = [maze EXCEPT !.cells = RemoveWalls(maze, drawn.res, 1)]
    /\ pc' = "border"
    /\ UNCHANGED <<args, width, height, perfect, loop_factor, stack, iters,
                   marked, file, prev>>
    /\ UNCHANGED <<config, validated>>

\* add_border_walls, then generate returns the maze
AddBorderWalls ==
    /\ pc = "border"
    /\ maze' = [maze EXCEPT !.cells = BorderWalls(maze)]
    /\ pc' = "returned"
    /\ UNCHANGED <<args, width, height, perfect, loop_factor, ran, stack, iters,
                   marked, walls_to_remove, file, prev>>
    /\ UNCHANGED <<config, validated>>

\* save_to_file
SaveToFile ==
    /\ pc = "returned"
    /\ file' = FileLines(maze)
    /\ pc' = "saved"
    /\ UNCHANGED <<args, width, height, perfect, loop_factor, ran, maze, stack,
                   iters, marked, walls_to_remove, prev>>
    /\ UNCHANGED <<config, validated>>

\* the caller keeps the result and starts the same run again: a new
\* MazeGenerator is about to be built from the same arguments
Again ==
    /\ pc = "saved"
    /\ prev = <<>>
    /\ prev' = <<[cells |-> maze.cells, file |-> file]>>
    /\ width' = 0 /\ height' = 0 /\ perfect' = TRUE /\ loop_factor' = 0
    /\ maze' = NoMaze
    /\ stack' = <<>>
    /\ iters' = 0
    /\ marked' = {}
    /\ walls_to_remove' = <<>>
    /\ file' = <<>>
    /\ pc' = "new"
    /\ UNCHANGED <<args, ran>>
    /\ UNCHANGED <<config, validated>>

\* an iteration of the while loop of recursive_backtracker, or its end
CarverStep == CarvePush \/ CarvePop \/ FinishBacktracker

\* one run: MazeGenerator(...), generate(entry, exit), save_to_file
Run ==
    \/ Construct
    \/ GenerateRaise
    \/ GenerateMaze
    \/ Add42Pattern
    \/ StartBacktracker
    \/ CarverStep
    \/ AddLoops
    \/ AddBorderWalls
    \/ SaveToFile

Next == Run \/ Again

Spec == Init /\ [][Next]_vars

\* One run, in which generate is a sequential call: while the carver has a
\* step to take, it takes it
FairSpec == Init /\ [][Run]_vars /\ WF_vars(CarverStep)

----------------------------------------------------------------------------
(* Vocabulary of the properties, stated on the wall flags alone *)

\* direction, step in x, step in y, the direction facing it
Facing ==
    {<<"N", 0, -1, "S">>, <<"E", 1, 0, "W">>,
     <<"S", 0, 1, "N">>, <<"W", -1, 0, "E">>}

Grid(m) == (0..(m.width - 1)) \X (0..(m.height - 1))

HasMaze == maze # NoMaze

Finished == pc \in {"returned", "saved"}

\* the cells the stamper left alone
Free(m) == Grid(m) \ marked

\* internal walls, each named once by its west or north cell
EastWalls(m) == {c \in Grid(m) : c[1] + 1 < m.width}

SouthWalls(m) == {c \in Grid(m) : c[2] + 1 < m.height}

OpenInternal(m) ==
    Cardinality({c \in EastWalls(m) : ~m.cells[c].walls["E"]})
        + Cardinality({c \in SouthWalls(m) : ~m.cells[c].walls["S"]})

\* b is next to a through a passage that is open on both sides
Passage(m, a, b) ==
    \E f \in Facing :
        /\ b = <<a[1] + f[2], a[2] + f[3]>>
        /\ ~m.cells[a].walls[f[1]]
        /\ ~m.cells[b].walls[f[4]]

\* the cells joined to the cells of seen by open passages
RECURSIVE Reach(_, _)
Reach(m, seen) ==
    LET more == {b \in Grid(m) \ seen : \E a \in seen : Passage(m, a, b)}
    IN  IF more = {} THEN seen ELSE Reach(m, seen \cup more)

AllWalls(cell) == \A d \in DirSet : cell.walls[d]

\* C1: a perfect maze returned by generate is a spanning tree of the cells
\* that were not stamped: every such cell is joined to the entry by open
\* passages and the open internal walls number one less than these cells
\* (24 on the 5 x 5 grid).
C1_PerfectSpanningTree ==
    (pc = "returned" /\ perfect) =>
        /\ Reach(maze, {maze.entry}) = Free(maze)
        /\ OpenInternal(maze) = Cardinality(Free(maze)) - 1
        /\ (maze.width = 5 /\ maze.height = 5) => OpenInternal(maze) = 24

C1_Witness ==
    /\ pc = "returned" /\ perfect
    /\ marked # {}
    /\ maze.entry \in Reach(maze, {maze.exit})
    /\ OpenInternal(maze) = Cardinality(Free(maze)) - 1

\* C2: whenever a Maze exists, for every two adjacent cells the wall of one
\* toward the other is open exactly when the wall of the other toward the
\* first is open.
C2_WallPairing ==
    HasMaze =>
        /\ \A a \in EastWalls(maze) :
              maze.cells[a].walls["E"] <=> maze.cells[<<a[1] + 1, a[2]>>].walls["W"]
        /\ \A a \in SouthWalls(maze) :
              maze.cells[a].walls["S"] <=> maze.cells[<<a[1], a[2] + 1>>].walls["N"]

C2_Witness ==
    /\ pc = "returned" /\ ~perfect
    /\ marked # {}
    /\ Len(walls_to_remove) > 1
    /\ \E a \in Grid(maze) :
          /\ <<a[1] + 1, a[2]>> \in Grid(maze)
          /\ ~maze.cells[a].walls["E"]
          /\ ~maze.cells[<<a[1] + 1, a[2]>>].walls["W"]

\* the four outer edges are walled
Sealed(m) ==
    \A c \in Grid(m) :
        /\ c[2] = 0 => m.cells[c].walls["N"]
        /\ c[2] = m.height - 1 => m.cells[c].walls["S"]
        /\ c[1] = 0 => m.cells[c].walls["W"]
        /\ c[1] = m.width - 1 => m.cells[c].walls["E"]

\* C3: in the maze generate returns, every cell of row 0 has its North
\* wall, every cell of the last row its South wall, every cell of column 0
\* its West wall and every cell of the last column its East wall.
C3_BorderSealed == Finished => Sealed(maze)

C3_Witness ==
    /\ pc = "returned" /\ ~perfect /\ loop_factor = One
    /\ Len(walls_to_remove) > 0
    /\ maze.width > 2 /\ maze.height > 2
    /\ Sealed(maze)

\* C4: a cell marked by the stamper keeps its four walls, and its
\* neighbours keep their walls toward it, through carving and loop
\* injection and in the maze generate returns.
C4_StampedStayClosed ==
    \A c \in marked :
        /\ AllWalls(maze.cells[c])
        /\ \A f \in Facing :
              LET b == <<c[1] + f[2], c[2] + f[3]>>
              IN  b \in Grid(maze) => maze.cells[b].walls[f[4]]

C4_Witness ==
    /\ pc = "returned" /\ ~perfect /\ loop_factor = One
    /\ Len(walls_to_remove) > 0
    /\ marked # {}
    /\ \A c \in marked : AllWalls(maze.cells[c])

\* the bitmap-1 positions of a grid
Bitmap1(w, h) == PatternTargets(w, h, <<-1, -1>>, <<-1, -1>>)

\* C5: the entry and the exit are never marked by the stamper, also when
\* they lie on a bitmap-1 position, and in the maze generate returns the
\* exit is joined to the entry by open passages.
C5_EntryExitJoined ==
    HasMaze =>
        /\ maze.entry \notin marked
        /\ maze.exit \notin marked
        /\ pc = "returned" => maze.exit \in Reach(maze, {maze.entry})

C5_Witness ==
    /\ pc = "returned"
    /\ maze.entry \in Bitmap1(width, height)
    /\ maze.exit \in Bitmap1(width, height)
    /\ maze.exit \in Reach(maze, {maze.entry})

\* the internal walls still present between two cells the stamper left
\* alone, each counted once
CandidateCount(m) ==
    Cardinality({c \in EastWalls(m) \ marked :
                    m.cells[c].walls["E"] /\ <<c[1] + 1, c[2]>> \notin marked})
        + Cardinality({c \in SouthWalls(m) \ marked :
                          m.cells[c].walls["S"] /\ <<c[1], c[2] + 1>> \notin marked})

\* floor(n * f) for f = lf quarters
FloorOfProduct(n, lf) ==
    CHOOSE k \in 0..n : k * One <= n * lf /\ n * lf < (k + 1) * One

NoRepeats(seq) ==
    \A i \in 1..Len(seq) : \A j \in 1..Len(seq) : seq[i] = seq[j] => i = j

\* C6: the loop injector opens exactly floor(candidate_count * loop_factor)
\* distinct internal walls, never more than candidate_count, where
\* candidate_count counts the internal walls present after carving between
\* two cells that are not reserved.
C6_LoopCount ==
    [][pc = "loops" =>
          LET count == CandidateCount(maze)
          IN  /\ Len(walls_to_remove') = FloorOfProduct(count, loop_factor)
              /\ Len(walls_to_remove') <= count
              /\ NoRepeats(walls_to_remove')
              /\ OpenInternal(maze') = OpenInternal(maze) + Len(walls_to_remove')]_vars

C6_Witness ==
    /\ pc = "border" /\ ~perfect
    /\ loop_factor = 1
    /\ marked # {}
    /\ Len(walls_to_remove) > 1
    /\ OpenInternal(maze) = Cardinality(Free(maze)) - 1 + Len(walls_to_remove)

\* the arguments generate refuses
BadArguments ==
    \/ args.entry[1] < 0 \/ args.entry[1] >= args.width
    \/ args.entry[2] < 0 \/ args.entry[2] >= args.height
    \/ args.exit[1] < 0 \/ args.exit[1] >= args.width
    \/ args.exit[2] < 0 \/ args.exit[2] >= args.height
    \/ args.entry = args.exit

\* C7: with an entry or an exit outside the grid, or an entry equal to the
\* exit, generate raises: no Maze is built, no flag is set and no random
\* value is drawn.  With any other arguments it does not raise and the maze
\* it returns is the one built for these arguments.
C7_RejectsBeforeBuilding ==
    /\ BadArguments =>
          /\ pc \in {"new", "constructed", "raised"}
          /\ maze = NoMaze /\ marked = {} /\ stack = <<>>
          /\ pc # "new" => ran = NewRandom(args.seed)
    /\ ~BadArguments =>
          /\ pc # "raised"
          /\ pc \notin {"new", "constructed"} =>
                /\ Grid(maze) = (0..(args.width - 1)) \X (0..(args.height - 1))
                /\ DOMAIN maze.cells = Grid(maze)
                /\ maze.entry = args.entry /\ maze.exit = args.exit

C7_Witness ==
    /\ pc = "raised"
    /\ args.entry = args.exit
    /\ args.entry[1] >= 0 /\ args.entry[1] < args.width
    /\ args.entry[2] >= 0 /\ args.entry[2] < args.height
    /\ maze = NoMaze

\* C8: the second of two runs with the same seed and the same parameters
\* ends with the wall flags and the file of the first.
C8_SameSeedSameMaze ==
    (pc = "saved" /\ prev # <<>>) =>
        /\ maze.cells = prev[1].cells
        /\ file = prev[1].file

C8_Witness ==
    /\ pc = "saved" /\ prev # <<>>
    /\ ~perfect /\ Len(walls_to_remove) > 1
    /\ marked # {}
    /\ file = prev[1].file

\* C9: the carver ends, and ends with an empty stack: a cell is pushed only
\* while it is unvisited and no visited flag is ever cleared, so each cell
\* is pushed at most once, and the loop runs at most 2 * width * height
\* times.  The loop injector removes walls that are present and removes no
\* wall twice.
C9_CarverTerminates ==
    /\ [](pc = "carve" => iters <= 2 * width * height)
    /\ [](pc \in {"loops", "border", "returned", "saved"} => stack = <<>>)
    /\ [][Len(stack') > Len(stack) =>
              LET top == stack'[Len(stack')]
              IN  /\ stack' = Append(stack, top)
                  /\ ~maze'.cells[top].visited \/ ~maze.cells[top].visited
                  /\ maze'.cells[top].visited]_vars
    /\ [][pc' # "new" =>
              \A c \in DOMAIN maze.cells :
                  maze.cells[c].visited => maze'.cells[c].visited]_vars
    /\ [][pc = "loops" =>
              /\ NoRepeats(walls_to_remove')
              /\ \A i \in 1..Len(walls_to_remove') :
                    LET w == walls_to_remove'[i]
                    IN  /\ maze.cells[<<w[1], w[2]>>].walls[w[3]]
                        /\ ~maze'.cells[<<w[1], w[2]>>].walls[w[3]]]_vars
    /\ (pc = "carve" ~> (pc \in {"loops", "border"} /\ stack = <<>>))

C9_Witness ==
    /\ pc = "border" /\ ~perfect
    /\ stack = <<>>
    /\ marked # {}
    /\ iters = 2 * Cardinality(Free(maze)) - 1
    /\ Len(walls_to_remove) > 1

----------------------------------------------------------------------------
(* The serializer on its own: save_to_file applied to any wall matrix *)

\* a row or a column of 2..MaxSer cells
SerDims == {<<n, 1>> : n \in 2..MaxSer} \cup {<<1, n>> : n \in 2..MaxSer}

InitSer ==
    /\ \E d \in SerDims :
         /\ args = [width |-> d[1], height |-> d[2], perfect |-> TRUE,
                    loop_factor |-> 1, seed |-> 0,
                    entry |-> <<0, 0>>, exit |-> <<d[1] - 1, d[2] - 1>>]
         /\ \E flags \in [Coords(d[1], d[2]) -> [DirSet -> BOOLEAN]] :
               maze = [Maze(d[1], d[2], args.entry, args.exit) EXCEPT
                          !.cells = [c \in Coords(d[1], d[2]) |->
                                        [walls |-> flags[c], visited |-> TRUE]]]
    /\ width = args.width /\ height = args.height
    /\ perfect = TRUE /\ loop_factor = 1
    /\ ran = NewRandom(0)
    /\ pc = "returned"
    /\ stack = <<>>
    /\ iters = 0
    /\ marked = {}
    /\ walls_to_remove = <<>>
    /\ file = <<>>
    /\ prev = <<>>
    /\ config = <<>>
    /\ validated = <<>>

NextSer == SaveToFile

SpecSer == InitSer /\ [][NextSer]_vars

\* the value of a hexadecimal digit
DigitValue(ch) ==
    CASE ch = "0" -> 0 [] ch = "1" -> 1 [] ch = "2" -> 2 [] ch = "3" -> 3
      [] ch = "4" -> 4 [] ch = "5" -> 5 [] ch = "6" -> 6 [] ch = "7" -> 7
      [] ch = "8" -> 8 [] ch = "9" -> 9 [] ch = "A" -> 10 [] ch = "B" -> 11
      [] ch = "C" -> 12 [] ch = "D" -> 13 [] ch = "E" -> 14 [] ch = "F" -> 15

\* a digit read back with bit 0 = North, bit 1 = East, bit 2 = South,
\* bit 3 = West
DecodeDigit(ch) ==
    LET v == DigitValue(ch)
    IN  [d \in DirSet |->
            CASE d = "N" -> v % 2 = 1
              [] d = "E" -> (v \div 2) % 2 = 1
              [] d = "S" -> (v \div 4) % 2 = 1
              [] d = "W" -> (v \div 8) % 2 = 1]

\* C10: save_to_file writes height rows of width digits, the digit of a
\* cell having the value N*1 + E*2 + S*4 + W*8; two cells with the same
\* digit have the same wall flags, and reading each digit back with the
\* same bit order gives the wall flags of its cell.
C10_HexRoundTrip ==
    pc = "saved" =>
        /\ Len(file) = maze.height + 4
        /\ \A c \in Grid(maze) :
              LET flags == maze.cells[c].walls
                  row == file[c[2] + 1]
                  digit == row[c[1] + 1]
              IN  /\ Len(row) = maze.width
                  /\ DigitValue(digit) =
                         Bit(flags["N"]) * 1 + Bit(flags["E"]) * 2
                             + Bit(flags["S"]) * 4 + Bit(flags["W"]) * 8
                  /\ DecodeDigit(digit) = flags
                  /\ \A e \in Grid(maze) :
                        file[e[2] + 1][e[1] + 1] = digit
                            => maze.cells[e].walls = flags

C10_Witness ==
    /\ pc = "saved"
    /\ maze.width = 2
    /\ file[1] = <<"5", "A">>
    /\ DecodeDigit("A") = maze.cells[<<1, 0>>].walls

----------------------------------------------------------------------------
(* The stamper on its own: generate up to the end of add_42_pattern, on *)
(* grids around the size of the bitmap                                  *)

\* nothing is built yet
Unbuilt ==
    /\ width = 0 /\ height = 0 /\ perfect = TRUE /\ loop_factor = 0
    /\ ran = 0
    /\ pc = "new"
    /\ maze = NoMaze
    /\ stack = <<>>
    /\ iters = 0
    /\ marked = {}
    /\ walls_to_remove = <<>>
    /\ file = <<>>
    /\ prev = <<>>
    /\ config = <<>>
    /\ validated = <<>>

StampDims ==
    (pattern_w..(pattern_w + MaxMargin)) \X (pattern_h..(pattern_h + MaxMargin))

\* every point of the grid as entry, as exit, and as entry with the exit
\* to its right
StampEntryExit(w, h) ==
    LET origin == <<0, 0>>
        others == Coords(w, h) \ {origin}
    IN  {<<p, origin>> : p \in others}
            \cup {<<origin, p>> : p \in others}
            \cup {<<p, <<p[1] + 1, p[2]>> >> : p \in {q \in Coords(w, h) : q[1] + 1 < w}}

InitStamp ==
    /\ \E d \in StampDims : \E ee \in StampEntryExit(d[1], d[2]) :
            args = [width |-> d[1], height |-> d[2], perfect |-> TRUE,
                    loop_factor |-> 1, seed |-> 0,
                    entry |-> ee[1], exit |-> ee[2]]
    /\ Unbuilt

NextStamp == Construct \/ GenerateMaze \/ Add42Pattern

SpecStamp == InitStamp /\ [][NextStamp]_vars

\* the bitmap-1 positions <<px, py>> of the glyph
Glyph ==
    {<<0, 0>>, <<2, 0>>, <<4, 0>>, <<5, 0>>, <<6, 0>>,
     <<0, 1>>, <<2, 1>>, <<6, 1>>,
     <<0, 2>>, <<1, 2>>, <<2, 2>>, <<4, 2>>, <<5, 2>>, <<6, 2>>,
     <<2, 3>>, <<4, 3>>,
     <<2, 4>>, <<4, 4>>, <<5, 4>>, <<6, 4>>}

\* the cells the stamper is to mark on the grid of m
GlyphCells(m) ==
    IF m.width < 9 \/ m.height < 7 THEN {}
    ELSE {<<(m.width - 7) \div 2 + g[1], (m.height - 5) \div 2 + g[2]>> : g \in Glyph}
             \ {m.entry, m.exit}

\* C11: pattern stamping marks no cell when width < 9 or height < 7;
\* otherwise it marks exactly the bitmap-1 cells at offset
\* ((width-7)//2, (height-5)//2) except entry and exit; no marked cell is on
\* the outer border; stamping changes no wall flag.
C11_StampPlacement ==
    [][pc = "pattern" =>
          /\ marked' = GlyphCells(maze)
          /\ \A c \in Grid(maze) :
                /\ maze'.cells[c].visited <=> c \in GlyphCells(maze)
                /\ maze'.cells[c].walls = maze.cells[c].walls
          /\ \A c \in marked' :
                /\ 1 <= c[1] /\ c[1] <= maze.width - 2
                /\ 1 <= c[2] /\ c[2] <= maze.height - 2]_vars

C11_Witness ==
    /\ pc = "backtracker"
    /\ width = 11 /\ height = 8
    /\ maze.entry = <<2, 1>>
    /\ Cardinality(marked) = 19
    /\ <<4, 1>> \in marked /\ maze.cells[<<4, 1>>].visited
    /\ ~maze.cells[<<2, 1>>].visited

\* C12: a loop_factor below 0 is taken as 0 and one above 1 as 1, any other
\* is kept; with an argument of at most 0 the loop injector removes no wall
\* and the maze stays a spanning tree, with one of at least 1 it removes
\* every candidate wall.
C12_LoopFactorClamped ==
    /\ pc # "new" =>
          /\ loop_factor >= 0 /\ loop_factor <= One
          /\ args.loop_factor < 0 => loop_factor = 0
          /\ args.loop_factor > One => loop_factor = One
          /\ (args.loop_factor >= 0 /\ args.loop_factor <= One)
                => loop_factor = args.loop_factor
    /\ (pc = "border" /\ ~perfect) =>
          /\ args.loop_factor <= 0 =>
                /\ walls_to_remove = <<>>
                /\ OpenInternal(maze) = Cardinality(Free(maze)) - 1
          /\ args.loop_factor >= One => CandidateCount(maze) = 0

C12_Witness ==
    /\ pc = "border" /\ ~perfect
    /\ args.loop_factor > One /\ loop_factor = One
    /\ marked # {}
    /\ Len(walls_to_remove) > 1
    /\ CandidateCount(maze) = 0

\* C13: when the loop injector runs, the set it derives (visited cells with
\* all four walls) is exactly the set of cells the stamper marked; every
\* cell the stamper left alone, the entry included, has been carved: it is
\* visited and has an open wall, so it is not in the derived set.
C13_ReservedIsStamped ==
    pc = "loops" =>
        /\ pattern_walls(maze) = marked
        /\ maze.entry \notin pattern_walls(maze)
        /\ \A c \in Free(maze) :
              /\ maze.cells[c].visited
              /\ ~AllWalls(maze.cells[c])
              /\ c \notin pattern_walls(maze)

C13_Witness ==
    /\ pc = "loops"
    /\ maze.entry \in GlyphCells([maze EXCEPT !.entry = <<-1, -1>>])
    /\ Cardinality(marked) = 18
    /\ pattern_walls(maze) = marked

\* C14: in every state the carver and the loop injector go through, and in
\* every other state that has a maze, every wall on the grid boundary is
\* present; so the border enforcer changes no wall flag (and no other field
\* of a cell).
C14_BorderNeverOpened ==
    [][/\ HasMaze' => Sealed(maze')
       /\ pc = "border" => maze'.cells = maze.cells]_vars

C14_Witness ==
    /\ pc = "returned" /\ ~perfect
    /\ Len(walls_to_remove) > 2
    /\ marked # {}
    /\ Sealed(maze)
    /\ \E c \in Grid(maze) : c[1] = 0 /\ ~maze.cells[c].walls["E"]

\* the cell on the other side of the wall <<x, y, dir>>
Across(wall) ==
    <<wall[1] + DIRECTION_OFFSETS(wall[3])[1],
      wall[2] + DIRECTION_OFFSETS(wall[3])[2]>>

\* C15: the loop injector closes no wall: every wall flag that is clear
\* before it is clear after it. Every wall it removes joins two cells that
\* were already joined by open passages, so as soon as it removes one wall
\* the passages have a cycle. After it the open internal walls number the
\* cells that are not stamped, less one, plus the walls it removed.
C15_LoopsOnlyOpen ==
    [][pc = "loops" =>
          /\ \A c \in Grid(maze) : \A d \in DirSet :
                ~maze.cells[c].walls[d] => ~maze'.cells[c].walls[d]
          /\ LET joined == Reach(maze, {maze.entry})
             IN  \A i \in 1..Len(walls_to_remove') :
                    LET a == <<walls_to_remove'[i][1], walls_to_remove'[i][2]>>
                        b == Across(walls_to_remove'[i])
                    IN  /\ a \in joined /\ b \in joined
                        /\ ~Passage(maze, a, b)
                        /\ Passage(maze', a, b)
          /\ OpenInternal(maze') =
                Cardinality(Free(maze)) - 1 + Len(walls_to_remove')]_vars

C15_Witness ==
    /\ pc = "border" /\ ~perfect
    /\ loop_factor = 2
    /\ marked # {}
    /\ Len(walls_to_remove) > 2
    /\ OpenInternal(maze) = Cardinality(Free(maze)) - 1 + Len(walls_to_remove)

\* the directions in which the cell c has a neighbour in the grid that is
\* not visited
UnvisitedAround(m, c) ==
    {f \in Facing :
        /\ <<c[1] + f[2], c[2] + f[3]>> \in Grid(m)
        /\ ~m.cells[<<c[1] + f[2], c[2] + f[3]>>].visited}

\* C16: each step of the carver is a push or a pop. When the top of the
\* stack has an unvisited neighbour the step is a push: for one such
\* neighbour the wall between the two is cleared on both sides, the
\* neighbour becomes visited and goes on the stack, and no other flag of any
\* cell changes. When it has none the step is a pop: the top leaves the
\* stack and no wall or visited flag changes. So no pop happens while the
\* top has an unvisited neighbour.
C16_PushOrPop ==
    [][(pc = "carve" /\ stack # <<>>) =>
          LET top == stack[Len(stack)]
              around == UnvisitedAround(maze, top)
          IN  IF around # {}
              THEN \E f \in around :
                      LET n == <<top[1] + f[2], top[2] + f[3]>>
                      IN  /\ stack' = Append(stack, n)
                          /\ maze'.cells[top] =
                                [maze.cells[top] EXCEPT !.walls[f[1]] = FALSE]
                          /\ maze'.cells[n] =
                                [maze.cells[n] EXCEPT !.walls[f[4]] = FALSE,
                                                      !.visited = TRUE]
                          /\ \A c \in Grid(maze) \ {top, n} :
                                maze'.cells[c] = maze.cells[c]
              ELSE /\ Len(stack') = Len(stack) - 1
                   /\ \A i \in 1..Len(stack') : stack'[i] = stack[i]
                   /\ maze' = maze]_vars

\* pushes and pops have both happened, on a grid with stamped cells
C16_Witness ==
    /\ pc = "carve"
    /\ marked # {}
    /\ Len(stack) > 2
    /\ Len(stack) < iters + 1
    /\ UnvisitedAround(maze, stack[Len(stack)]) # {}

\* C17: while the carver runs, the stack is a simple path that starts at the
\* entry: its bottom is the entry, every cell on it is visited and not
\* stamped, no cell is on it twice, and each cell is next to the one below
\* it with the wall between them open on both sides.
C17_StackIsPath ==
    (pc = "carve" /\ stack # <<>>) =>
        /\ stack[1] = maze.entry
        /\ \A i \in 1..Len(stack) :
              /\ stack[i] \in Grid(maze)
              /\ maze.cells[stack[i]].visited
              /\ stack[i] \notin marked
        /\ NoRepeats(stack)
        /\ \A i \in 1..(Len(stack) - 1) : Passage(maze, stack[i], stack[i + 1])

\* a path of four cells after a pop, on a grid with stamped cells
C17_Witness ==
    /\ pc = "carve"
    /\ marked # {}
    /\ Len(stack) > 3
    /\ Len(stack) < iters + 1
    /\ stack[1] = maze.entry
    /\ Passage(maze, stack[3], stack[4])

----------------------------------------------------------------------------
(* A perfect run followed by a non-perfect run of the same seed, size,
   entry and exit *)

InitPair ==
    /\ \E d \in Dimensions, lf \in LoopFactors, sd \in Seeds :
         \E ee \in EntryExit(d[1], d[2]) :
            args = [width |-> d[1], height |-> d[2], perfect |-> TRUE,
                    loop_factor |-> lf, seed |-> sd,
                    entry |-> ee[1], exit |-> ee[2]]
    /\ Unbuilt

\* the caller keeps the perfect result, with the state the carver left the
\* random source in and the number of its steps, and builds a second
\* MazeGenerator that differs in perfect=False alone
AgainNonPerfect ==
    /\ pc = "saved"
    /\ prev = <<>>
    /\ args.perfect
    /\ prev' = <<[cells |-> maze.cells, file |-> file,
                   ran |-> ran, iters |-> iters]>>
    /\ args' = [args EXCEPT !.perfect = FALSE]
    /\ width' = 0 /\ height' = 0 /\ perfect' = TRUE /\ loop_factor' = 0
    /\ maze' = NoMaze
    /\ stack' = <<>>
    /\ iters' = 0
    /\ marked' = {}
    /\ walls_to_remove' = <<>>
    /\ file' = <<>>
    /\ pc' = "new"
    /\ UNCHANGED ran
    /\ UNCHANGED <<config, validated>>

NextPair == Run \/ AgainNonPerfect

SpecPair == InitPair /\ [][NextPair]_vars

\* both sides of the walls of a list, as <<cell, direction>> pairs
BothSides(list) ==
    UNION {{<< <<list[i][1], list[i][2]>>, list[i][3] >>,
            << Across(list[i]), OPPOSITE(list[i][3]) >>} : i \in 1..Len(list)}

\* C18: a non-perfect maze refines the perfect maze of the same seed, size,
\* entry and exit. The carver makes the same choices: when it ends it has
\* taken as many steps, left the random source in the same state and left
\* the cells as the perfect maze has them. In the maze that is returned
\* every wall that is open in the perfect maze is open, and the wall flags
\* that differ are exactly the two sides of the walls the loop injector
\* removed.
C18_NonPerfectRefinesPerfect ==
    /\ (prev # <<>> /\ pc = "loops") =>
          /\ maze.cells = prev[1].cells
          /\ ran = prev[1].ran
          /\ iters = prev[1].iters
    /\ (prev # <<>> /\ pc = "returned") =>
          /\ ~perfect
          /\ \A c \in Grid(maze) :
                /\ maze.cells[c].visited = prev[1].cells[c].visited
                /\ \A d \in DirSet :
                      ~prev[1].cells[c].walls[d] => ~maze.cells[c].walls[d]
          /\ {cd \in Grid(maze) \X DirSet :
                 maze.cells[cd[1]].walls[cd[2]] # prev[1].cells[cd[1]].walls[cd[2]]}
               = BothSides(walls_to_remove)

C18_Witness ==
    /\ pc = "returned" /\ prev # <<>> /\ ~perfect
    /\ marked # {}
    /\ Len(walls_to_remove) > 1
    /\ maze.cells # prev[1].cells
    /\ OpenInternal(maze) = Cardinality(Free(maze)) - 1 + Len(walls_to_remove)

----------------------------------------------------------------------------
\* C19: no stage of generate writes the solution: in every state that has a
\* maze its solution is empty and its entry and exit are the arguments of
\* generate; the file save_to_file writes has, after the rows and the blank
\* line, the entry line, the exit line and then an empty solution line,
\* which is its last.
C19_SolutionStaysEmpty ==
    /\ HasMaze =>
          /\ maze.solution = <<>>
          /\ maze.entry = args.entry
          /\ maze.exit = args.exit
    /\ pc = "saved" =>
          /\ Len(file) = height + 4
          /\ file[height + 1] = <<>>
          /\ file[height + 2] = args.entry
          /\ file[height + 3] = args.exit
          /\ file[height + 4] = <<>>

C19_Witness ==
    /\ pc = "saved" /\ ~perfect
    /\ walls_to_remove # <<>>
    /\ marked # {}
    /\ maze.entry # <<0, 0>>
    /\ file[height + 2] = maze.entry
    /\ file[height + 4] = <<>>

----------------------------------------------------------------------------
(* config_parser.validate_and_convert.  A str is a sequence of one-character
   strings. *)

\* the largest coordinate written in a configuration
MaxCfg == 2

DecimalDigits == <<"0", "1", "2", "3", "4", "5", "6", "7", "8", "9">>

IsDecimal(ch) == \E i \in 1..Len(DecimalDigits) : DecimalDigits[i] = ch

DecimalOf(ch) == (CHOOSE i \in 1..Len(DecimalDigits) : DecimalDigits[i] = ch) - 1

\* the value of a non-empty sequence of decimal digits
RECURSIVE DecimalValue(_)
DecimalValue(s) ==
    IF s = <<>> THEN 0
    ELSE DecimalValue(SubSeq(s, 1, Len(s) - 1)) * 10 + DecimalOf(s[Len(s)])

\* int(value) on a str of sign and digit characters: ok is FALSE where int
\* raises ValueError (no digit, or a character that is not a digit)
IntOf(value) ==
    LET signed == value # <<>> /\ value[1] \in {"-", "+"}
        body == IF signed THEN Tail(value) ELSE value
    IN  IF body = <<>> \/ \E i \in 1..Len(body) : ~IsDecimal(body[i])
        THEN [ok |-> FALSE, val |-> 0]
        ELSE [ok |-> TRUE,
              val |-> IF signed /\ value[1] = "-"
                      THEN 0 - DecimalValue(body) ELSE DecimalValue(body)]

\* ',' in value
HasComma(value) == \E i \in 1..Len(value) : value[i] = ","

\* value.split(',', 1) of a value with a comma
SplitComma(value) ==
    LET i == CHOOSE j \in 1..Len(value) :
                 value[j] = "," /\ \A k \in 1..(j - 1) : value[k] # ","
    IN  <<SubSeq(value, 1, i - 1), SubSeq(value, i + 1, Len(value))>>

\* str.lower on the letters the PERFECT values are written with
LowerChar(ch) ==
    CASE ch = "T" -> "t"
      [] ch = "R" -> "r"
      [] ch = "U" -> "u"
      [] ch = "E" -> "e"
      [] ch = "F" -> "f"
      [] ch = "A" -> "a"
      [] ch = "L" -> "l"
      [] ch = "S" -> "s"
      [] OTHER -> ch

Lower(value) == [i \in 1..Len(value) |-> LowerChar(value[i])]

mandatory_keys == <<"WIDTH", "HEIGHT", "ENTRY", "EXIT", "OUTPUT_FILE", "PERFECT">>

\* sys.exit: nothing is returned
Exit == [ok |-> FALSE, val |-> 0]

\* lines 42-51
ConvertSize(value) ==
    LET n == IntOf(value)
    IN  IF n.ok /\ n.val > 0 THEN [ok |-> TRUE, val |-> n.val] ELSE Exit

\* lines 52-67
ConvertPoint(value) ==
    IF ~HasComma(value) THEN Exit
    ELSE LET x == IntOf(SplitComma(value)[1])
             y == IntOf(SplitComma(value)[2])
         IN  IF ~x.ok \/ ~y.ok THEN Exit
             ELSE IF x.val < 0 \/ y.val < 0 THEN Exit
             ELSE [ok |-> TRUE, val |-> <<x.val, y.val>>]

\* lines 68-72
ConvertOutputFile(value) ==
    IF value = <<>> THEN Exit ELSE [ok |-> TRUE, val |-> value]

\* lines 73-81
ConvertPerfect(value) ==
    IF Lower(value) \notin {<<"t", "r", "u", "e">>, <<"f", "a", "l", "s", "e">>}
    THEN Exit
    ELSE [ok |-> TRUE, val |-> (Lower(value) = <<"t", "r", "u", "e">>)]

\* one pass of the loop of lines 41-83
Convert(key, value) ==
    IF key = "WIDTH" \/ key = "HEIGHT" THEN ConvertSize(value)
    ELSE IF key = "ENTRY" \/ key = "EXIT" THEN ConvertPoint(value)
    ELSE IF key = "OUTPUT_FILE" THEN ConvertOutputFile(value)
    ELSE IF key = "PERFECT" THEN ConvertPerfect(value)
    ELSE Exit

\* lines 92 and 95 with > in place of >=
OutOfMazeLoose(p, w, h) == p[1] < 0 \/ p[1] > w \/ p[2] < 0 \/ p[2] > h

\* the tests of lines 92 and 95
OutOfMaze(p, w, h) == p[1] < 0 \/ p[1] >= w \/ p[2] < 0 \/ p[2] >= h

\* validate_and_convert: ok is FALSE where it ends in sys.exit, otherwise val
\* is the dict it returns.  The loop exits at the first key that fails, in
\* whatever order the dict has its keys.
validate_and_convert(cfg) ==
    LET converted == [k \in DOMAIN cfg |-> Convert(k, cfg[k])]
    IN  IF \E k \in DOMAIN cfg : ~converted[k].ok THEN Exit
        ELSE IF \E i \in 1..Len(mandatory_keys) :
                    mandatory_keys[i] \notin DOMAIN cfg
        THEN Exit
        ELSE LET v == [k \in DOMAIN cfg |-> converted[k].val]
             IN  IF OutOfMaze(v["ENTRY"], v["WIDTH"], v["HEIGHT"]) THEN Exit
                 ELSE IF OutOfMaze(v["EXIT"], v["WIDTH"], v["HEIGHT"]) THEN Exit
                 ELSE IF v["ENTRY"] = v["EXIT"] THEN Exit
                 ELSE [ok |-> TRUE, val |-> v]

\* str(n) for -10 < n < 10
Str(n) == IF n < 0 THEN <<"-", DecimalDigits[1 - n]>> ELSE <<DecimalDigits[n + 1]>>

\* marks a key that the configuration does not have
Absent == <<"#">>

CfgPoints == {Str(x) \o <<",">> \o Str(y) : x \in 0..MaxCfg, y \in 0..MaxCfg}

WidthValues == {Str(n) : n \in (-1)..(MaxCfg + 1)} \cup {<<"x">>, <<>>}

HeightValues == {Str(n) : n \in 0..MaxCfg}

EntryValues ==
    CfgPoints \cup {<<"-", "1", ",", "0">>, <<"1">>, <<"1", ",", "1", ",", "1">>}

ExitValues == CfgPoints \cup {<<"0", ",">>}

OutputFileValues == {<<>>, <<"m">>}

PerfectValues ==
    {<<"T", "r", "u", "e">>, <<"F", "A", "L", "S", "E">>, <<"y", "e", "s">>}

AllKeys == {mandatory_keys[i] : i \in 1..Len(mandatory_keys)} \cup {"SEED"}

\* the dict with the keys that are not Absent
Present(full) == [k \in {j \in AllKeys : full[j] # Absent} |-> full[k]]

InitCfg ==
    /\ \E w \in WidthValues \cup {Absent}, h \in HeightValues \cup {Absent},
          e \in EntryValues \cup {Absent}, x \in ExitValues \cup {Absent},
          o \in OutputFileValues \cup {Absent},
          p \in PerfectValues \cup {Absent}, u \in {<<"1">>, Absent} :
         config = Present([k \in AllKeys |->
                     CASE k = "WIDTH" -> w
                       [] k = "HEIGHT" -> h
                       [] k = "ENTRY" -> e
                       [] k = "EXIT" -> x
                       [] k = "OUTPUT_FILE" -> o
                       [] k = "PERFECT" -> p
                       [] OTHER -> u])
    /\ validated = <<>>
    /\ args = [width |-> 0, height |-> 0, perfect |-> TRUE, loop_factor |-> 0,
               seed |-> 0, entry |-> <<0, 0>>, exit |-> <<0, 0>>]
    /\ width = 0 /\ height = 0 /\ perfect = TRUE /\ loop_factor = 0
    /\ ran = 0
    /\ pc = "config"
    /\ maze = NoMaze
    /\ stack = <<>>
    /\ iters = 0
    /\ marked = {}
    /\ walls_to_remove = <<>>
    /\ file = <<>>
    /\ prev = <<>>

\* validate_and_convert returns the dict or ends the program
ValidateAndConvert ==
    /\ pc = "config"
    /\ LET result == validate_and_convert(config)
       IN  IF result.ok
           THEN validated' = result.val /\ pc' = "accepted"
           ELSE validated' = <<>> /\ pc' = "exit"
    /\ UNCHANGED <<args, width, height, perfect, loop_factor, ran, maze, stack,
                   iters, marked, walls_to_remove, file, prev, config>>

\* the caller hands the validated values to MazeGenerator and generate
Configure ==
    /\ pc = "accepted"
    /\ args' = [width |-> validated["WIDTH"], height |-> validated["HEIGHT"],
                perfect |-> validated["PERFECT"], loop_factor |-> 1,
                seed |-> 0,
                entry |-> validated["ENTRY"], exit |-> validated["EXIT"]]
    /\ pc' = "new"
    /\ UNCHANGED <<width, height, perfect, loop_factor, ran, maze, stack, iters,
                   marked, walls_to_remove, file, prev, config, validated>>

NextCfg == ValidateAndConvert \/ Configure \/ Construct \/ GenerateMaze

SpecCfg == InitCfg /\ [][NextCfg]_vars

\* the configuration lacks a mandatory key or has a key that is not one
MissingOrUnknown(cfg) ==
    \/ \E i \in 1..Len(mandatory_keys) : mandatory_keys[i] \notin DOMAIN cfg
    \/ \E k \in DOMAIN cfg : \A i \in 1..Len(mandatory_keys) : mandatory_keys[i] # k

\* C20: a configuration validate_and_convert accepts has WIDTH > 0,
\* HEIGHT > 0, ENTRY and EXIT inside the grid and different, so generate,
\* called with these values, raises nothing; a configuration that lacks one
\* of the six mandatory keys or has an unknown key is rejected.
C20_AcceptedConfigGenerates ==
    /\ pc = "accepted" =>
          /\ validated["WIDTH"] > 0
          /\ validated["HEIGHT"] > 0
          /\ InGrid(validated["WIDTH"], validated["HEIGHT"],
                    validated["ENTRY"][1], validated["ENTRY"][2])
          /\ InGrid(validated["WIDTH"], validated["HEIGHT"],
                    validated["EXIT"][1], validated["EXIT"][2])
          /\ validated["ENTRY"] # validated["EXIT"]
    /\ pc = "constructed" => ~Rejected(width, height, args.entry, args.exit)
    /\ (pc # "config" /\ MissingOrUnknown(config)) => pc = "exit"

\* generate has built the Maze of an accepted configuration
C20_Witness ==
    /\ pc = "pattern"
    /\ DOMAIN validated = {mandatory_keys[i] : i \in 1..Len(mandatory_keys)}
    /\ validated["WIDTH"] = 2 /\ validated["HEIGHT"] = 2
    /\ validated["ENTRY"] = <<1, 1>>
    /\ ~validated["PERFECT"]
    /\ maze.width = 2 /\ maze.entry = <<1, 1>>

====
